---- MODULE Spec2Model ----
(***************************************************************************)
(* A model of piston_window: the window coordinator (PistonWindow) in its  *)
(* three revisions                                                         *)
(*   "wgpu" : src/src/pistonwindow.rs  (owned fields, wgpu surface)        *)
(*   "gfx"  : src/src/prelude.rs       (owned fields, gfx/OpenGL targets)  *)
(*   "rc"   : src/src/lib.rs           (Rc<RefCell<..>> fields, next()     *)
(*                                      returns a clone holding the event) *)
(* and the script session of src/src/piston_script.rs.                     *)
(*                                                                         *)
(* The window back-end, the event ticker (piston's Events) and the GPU are *)
(* libraries outside the repository: they are modelled as the environment  *)
(* the coordinator runs in.                                                *)
(***************************************************************************)
EXTENDS Integers, Sequences, FiniteSets, TLC

VARIABLES
    rev,              \* which revision of PistonWindow is running
    draw_size,        \* window.draw_size(): <<width, height>>, as the OS has it now
    pending,          \* events queued in the window back-end, not yet polled
    should_close,     \* window.should_close()
    events,           \* Events: the ticker's state
    surface_config,   \* wgpu: surface_config.{width,height}; gfx/rc: dimensions of output_color
    ret_out,          \* rc: dimensions of output_color in the window next() returned
    surface_ok,       \* wgpu: the surface can hand out its current texture
    pc,               \* position inside the wgpu draw_2d
    surface_texture,  \* wgpu draw_2d local: "none" | "acquired"
    command_buffer,   \* wgpu draw_2d local: "none" | "recorded" | "submitted"
    op,               \* the coordinator call made most recently
    arg,              \* the event that call was given (draws), as an option
    gpu,              \* the GPU / back-end calls that call has made so far, in order
    res,              \* the callback's result in that call, as an option
    ret,              \* what that draw call returned, as an option
    tick,             \* what Events::next returned in the most recent next()
    e,                \* what the most recent next() returned: the event the caller holds
    panicked,         \* the thread has panicked (unwrap of an Err)
    last_resize,      \* history: draw size of the most recent resize event next() returned
    current,          \* the ambient "current" registry: handle type -> what is registered
    guards,           \* run(): the CurrentGuards alive, in the order they were made
    run_pc,           \* run(): position
    runs,             \* run(): how often f has run the script so far
    run_ret,          \* run(): its result, as an option
    released,         \* history: the handles released so far, in order
    pre,              \* history: the registry as it was when run() was called
    sounds,           \* script: Sounds, name -> (file, optional decoded sound data)
    music,            \* script: Music, name -> (file, optional streaming handle)
    glyphs,           \* script: Vec<GlyphCache>, the font table
    font_names,       \* script: FontNames
    images,           \* script: Vec<RgbaImage>, the image table
    textures,         \* script: Vec<Texture>, the texture table
    host,             \* the host function the script called most recently, with its arguments
    host_ret,         \* what that call returned to the script, as an option
    audio,            \* the calls that call made on the audio tracks and handles, in order
    reads,            \* the files that call read from storage, in order
    sound_loads,      \* history: name -> reads of its sound file since it was bound
    draw_calls,       \* the calls of window.draw_2d the most recent draw() made
    issued,           \* history: the ids create_texture and load_font have returned
    borrowed,         \* rc: the RefCells that are mutably borrowed
    callback,         \* rc: the draw_2d/draw_3d calls whose callback is running
    borrow_failed     \* rc: the RefCell a borrow_mut() found borrowed already

cvars == <<rev, draw_size, pending, should_close, events, surface_config, ret_out,
           surface_ok, pc, surface_texture, command_buffer, op, arg, gpu, res, ret,
           tick, e, panicked, last_resize>>

rvars == <<current, guards, run_pc, runs, run_ret, released, pre>>

svars == <<sounds, music, glyphs, font_names, images, textures, host, host_ret, audio,
           reads, sound_loads, draw_calls, issued>>

bvars == <<borrowed, callback, borrow_failed>>

vars == <<cvars, rvars, svars, bvars>>

-----------------------------------------------------------------------------
(* Bounds *)

\* draw sizes are <<0,0>> (minimised) and <<2k, k>> for k in 1..MaxDim
MaxDim == 2
\* events the window back-end holds before the ticker polls them
MaxPending == 2
\* times the wrapper f runs the script in one run()
MaxRuns == 2

-----------------------------------------------------------------------------
(* Values *)

None == <<>>
Some(x) == <<x>>

Revs == {"wgpu", "gfx", "rc"}

ZeroSize == <<0, 0>>
Sizes == {ZeroSize} \cup {<<2 * k, k>> : k \in 1..MaxDim}
NonZero(s) == s[1] # 0 /\ s[2] # 0

\* Results a drawing callback can return.
Results == {"ra", "rb"}

ResizeEv(s) == [kind |-> "resize", size |-> s]
RenderEv(s) == [kind |-> "render", size |-> s]
PlainEv(k) == [kind |-> k, size |-> ZeroSize]

-----------------------------------------------------------------------------
(* Environment: the window back-end and the event ticker *)

\* The ticker, Events::next(window), one call.  It returns none when the window
\* is to close.  Otherwise, by its state: before a render tick it first hands
\* out every event the window has queued; a render tick is produced only for a
\* window of non-zero draw size and is followed by the after-render event;
\* between frames it hands out queued events, idle ticks and update ticks.
\* Each outcome is [ret, state, pending].
TickRender(q, size) ==
    IF q # <<>>
    THEN {[ret |-> Some(Head(q)), state |-> "Render", pending |-> Tail(q)]}
    ELSE IF NonZero(size)
         THEN {[ret |-> Some(RenderEv(size)), state |-> "SwapBuffers", pending |-> q]}
         ELSE {}

TickUpdateLoop(q, size) ==
    (IF q # <<>>
     THEN {[ret |-> Some(Head(q)), state |-> "UpdateLoop", pending |-> Tail(q)],
           [ret |-> Some(Head(q)), state |-> "HandleEvents", pending |-> Tail(q)]}
     ELSE {[ret |-> Some(PlainEv("idle")), state |-> "UpdateLoop", pending |-> q],
           [ret |-> Some(PlainEv("update")), state |-> "UpdateLoop", pending |-> q]})
    \cup TickRender(q, size)

EventsNext(state, q, size, close) ==
    IF close THEN {[ret |-> None, state |-> state, pending |-> q]}
    ELSE IF state = "Render" /\ (q # <<>> \/ NonZero(size)) THEN TickRender(q, size)
    ELSE IF state = "SwapBuffers"
         THEN {[ret |-> Some(PlainEv("after_render")), state |-> "UpdateLoop", pending |-> q]}
    ELSE IF state = "HandleEvents" /\ q # <<>>
         THEN {[ret |-> Some(Head(q)), state |-> "HandleEvents", pending |-> Tail(q)]}
    ELSE IF state = "HandleEvents"
         THEN {[ret |-> Some(PlainEv("update")), state |-> "UpdateLoop", pending |-> q]}
    ELSE TickUpdateLoop(q, size)

-----------------------------------------------------------------------------
(* The coordinator's functions *)

\* `x as u32` / `x as u16` of an f64 holding a whole number: saturating casts
\* (the u32 cast saturates at 2^32 - 1, above every integer of the model)
F64AsU32(x) == IF x < 0 THEN 0 ELSE x
F64AsU16(x) == IF x < 0 THEN 0 ELSE IF x > 65535 THEN 65535 ELSE x

\* Mutant of render_args: the after-render event is taken for a render tick too.
render_args_loose(ev) ==
    IF ev.kind \in {"render", "after_render"} THEN Some(ev.size) ELSE None

\* GenericEvent::render_args as the draws use it: some(args) on a render tick
render_args(ev) == IF ev.kind = "render" THEN Some(ev.size) ELSE None

\* pistonwindow.rs, init_surface_config
init_surface_config(win) == <<F64AsU32(win[1]), F64AsU32(win[2])>>

\* PistonWindow::new: the configuration (or output targets) it starts with and
\* the GPU calls it makes
new(r, win) ==
    IF r = "wgpu"
    THEN [config |-> init_surface_config(win), gpu |-> <<"configure">>]
    ELSE [config |-> <<F64AsU16(win[1]), F64AsU16(win[2])>>,
          gpu |-> <<"create_main_targets">>]

\* Mutant of event_wgpu: the resize event is ignored.
event_wgpu_ignored(ev, cfg) == [config |-> cfg, gpu |-> <<>>]

\* Mutant of event_wgpu: width and height are exchanged.
event_wgpu_swapped(ev, cfg) ==
    IF ev.kind = "resize"
    THEN [config |-> <<ev.size[2], ev.size[1]>>, gpu |-> <<"configure">>]
    ELSE [config |-> cfg, gpu |-> <<>>]

\* pistonwindow.rs, PistonWindow::event: on a resize event the surface is
\* configured with the event's draw size; nothing else is done.
event_wgpu(ev, cfg) ==
    IF ev.kind = "resize"
    THEN [config |-> ev.size, gpu |-> <<"configure">>]
    ELSE [config |-> cfg, gpu |-> <<>>]

\* prelude.rs, PistonWindow::event: cleanup after the after-render event; the
\* output targets are re-created when they differ from the window's draw size.
event_gfx(ev, out, win) ==
    LET clean == IF ev.kind = "after_render" THEN <<"cleanup">> ELSE <<>>
        want == <<F64AsU16(win[1]), F64AsU16(win[2])>>
    IN IF out[1] # want[1] \/ out[2] # want[2]
       THEN [config |-> want, gpu |-> clean \o <<"create_main_targets">>]
       ELSE [config |-> out, gpu |-> clean]

\* pistonwindow.rs, Iterator::next, given what the ticker returned
next_wgpu(t, cfg) ==
    IF t # None
    THEN LET h == event_wgpu(t[1], cfg)
         IN [ret |-> Some(t[1]), config |-> h.config, out |-> ZeroSize, gpu |-> h.gpu]
    ELSE [ret |-> None, config |-> cfg, out |-> ZeroSize, gpu |-> <<>>]

\* Mutant of next_gfx: idle ticks are swallowed.
next_gfx_drops_idle(t, cfg, win) ==
    IF t # None /\ t[1].kind # "idle"
    THEN [ret |-> Some(t[1]), config |-> cfg, out |-> ZeroSize, gpu |-> <<>>]
    ELSE [ret |-> None, config |-> cfg, out |-> ZeroSize, gpu |-> <<>>]

\* prelude.rs, Iterator::next
next_gfx(t, cfg, win) ==
    IF t # None
    THEN LET h == event_gfx(t[1], cfg, win)
         IN [ret |-> Some(t[1]), config |-> h.config, out |-> ZeroSize, gpu |-> h.gpu]
    ELSE [ret |-> None, config |-> cfg, out |-> ZeroSize, gpu |-> <<>>]

\* lib.rs, Iterator::next: the window it is called on keeps its output targets;
\* the window it returns holds the event and, when the size differs, new targets.
next_rc(t, cfg, win) ==
    IF t # None
    THEN LET clean == IF t[1].kind = "after_render" THEN <<"cleanup">> ELSE <<>>
             want == <<F64AsU16(win[1]), F64AsU16(win[2])>>
         IN IF cfg[1] # want[1] \/ cfg[2] # want[2]
            THEN [ret |-> Some(t[1]), config |-> cfg, out |-> want,
                  gpu |-> clean \o <<"create_main_targets">>]
            ELSE [ret |-> Some(t[1]), config |-> cfg, out |-> cfg, gpu |-> clean]
    ELSE [ret |-> None, config |-> cfg, out |-> ZeroSize, gpu |-> <<>>]

next(r, t, cfg, win) ==
    IF r = "wgpu" THEN next_wgpu(t, cfg)
    ELSE IF r = "gfx" THEN next_gfx(t, cfg, win)
    ELSE next_rc(t, cfg, win)

\* prelude.rs, draw_2d: ev is the event given, r the result of the callback
draw_2d_gfx(ev, r) ==
    IF render_args(ev) # None
    THEN [ret |-> Some(r), res |-> Some(r),
          gpu |-> <<"make_current", "g2d.draw", "callback", "flush">>]
    ELSE [ret |-> None, res |-> None, gpu |-> <<>>]

\* prelude.rs, draw_3d
draw_3d_gfx(ev, r) ==
    IF render_args(ev) # None
    THEN [ret |-> Some(r), res |-> Some(r), gpu |-> <<"make_current", "callback", "flush">>]
    ELSE [ret |-> None, res |-> None, gpu |-> <<>>]

\* Mutant of draw_3d_wgpu: the callback's result is dropped.
draw_3d_wgpu_discard(ev, r) ==
    IF ev.kind = "render"
    THEN [ret |-> None, res |-> Some(r), gpu |-> <<"callback">>]
    ELSE [ret |-> None, res |-> None, gpu |-> <<>>]

\* pistonwindow.rs, draw_3d
draw_3d_wgpu(ev, r) ==
    IF render_args(ev) # None
    THEN [ret |-> Some(r), res |-> Some(r), gpu |-> <<"callback">>]
    ELSE [ret |-> None, res |-> None, gpu |-> <<>>]

\* lib.rs, draw_2d: w is the window's event field (an option); returns ()
draw_2d_rc(w, r) ==
    IF w # None /\ render_args(w[1]) # None
    THEN [ret |-> None, res |-> Some(r),
          gpu |-> <<"encoder.reset", "g2d.draw", "callback", "submit">>]
    ELSE [ret |-> None, res |-> None, gpu |-> <<>>]

\* lib.rs, draw_3d
draw_3d_rc(w, r) ==
    IF w # None /\ render_args(w[1]) # None
    THEN [ret |-> None, res |-> Some(r), gpu |-> <<"encoder.reset", "callback", "submit">>]
    ELSE [ret |-> None, res |-> None, gpu |-> <<>>]

-----------------------------------------------------------------------------
(* The coordinator as a state machine *)

\* lib.rs: the fields of PistonWindow that are RefCells borrowed mutably
Cells == {"window", "encoder", "device", "g2d", "events"}

\* After PistonWindow::new on a freshly built window
InitCoordinator ==
    /\ rev \in Revs
    /\ draw_size \in {s \in Sizes : NonZero(s)}
    /\ pending = <<>>
    /\ should_close = FALSE
    /\ events = "Render"
    /\ surface_config = new(rev, draw_size).config
    /\ ret_out = ZeroSize
    /\ surface_ok = TRUE
    /\ pc = "idle"
    /\ surface_texture = "none"
    /\ command_buffer = "none"
    /\ op = "new"
    /\ arg = None
    /\ gpu = new(rev, draw_size).gpu
    /\ res = None
    /\ ret = None
    /\ tick = None
    /\ e = None
    /\ panicked = FALSE
    /\ last_resize = None
    /\ borrowed = [c \in Cells |-> FALSE]
    /\ callback = <<>>
    /\ borrow_failed = None

\* The user (or the window system) gives the window another draw size: the
\* window reports it from now on and queues a resize event carrying it.
WindowResized(s) ==
    /\ ~should_close /\ ~panicked
    /\ s # draw_size
    /\ Len(pending) < MaxPending
    /\ draw_size' = s
    /\ pending' = Append(pending, ResizeEv(s))
    /\ UNCHANGED <<bvars, rvars, svars,
                   rev, should_close, events, surface_config, ret_out, surface_ok, pc,
                   surface_texture, command_buffer, op, arg, gpu, res, ret, tick, e,
                   panicked, last_resize>>

\* Any other input (a key, the mouse) is queued.
WindowInput ==
    /\ ~should_close /\ ~panicked
    /\ Len(pending) < MaxPending
    /\ pending' = Append(pending, PlainEv("input"))
    /\ UNCHANGED <<bvars, rvars, svars,
                   rev, draw_size, should_close, events, surface_config, ret_out,
                   surface_ok, pc, surface_texture, command_buffer, op, arg, gpu, res,
                   ret, tick, e, panicked, last_resize>>

\* The window is asked to close.
CloseRequested ==
    /\ ~should_close /\ ~panicked
    /\ should_close' = TRUE
    /\ UNCHANGED <<bvars, rvars, svars,
                   rev, draw_size, pending, events, surface_config, ret_out, surface_ok,
                   pc, surface_texture, command_buffer, op, arg, gpu, res, ret, tick, e,
                   panicked, last_resize>>

\* The wgpu surface becomes lost or outdated; configuring it anew repairs it.
SurfaceLost ==
    /\ rev = "wgpu" /\ surface_ok /\ ~should_close /\ ~panicked
    /\ surface_texture = "none"
    /\ surface_ok' = FALSE
    /\ UNCHANGED <<bvars, rvars, svars,
                   rev, draw_size, pending, should_close, events, surface_config,
                   ret_out, pc, surface_texture, command_buffer, op, arg, gpu, res, ret,
                   tick, e, panicked, last_resize>>

\* Iterator::next of the coordinator: ask the ticker, let event() handle what
\* it returned, return it.  It takes &mut self, so no draw_2d is in progress.
IteratorNext ==
    /\ ~panicked /\ pc = "idle"
    /\ \E o \in EventsNext(events, pending, draw_size, should_close) :
         LET n == next(rev, o.ret, surface_config, draw_size) IN
         /\ tick' = o.ret
         /\ events' = o.state
         /\ pending' = o.pending
         /\ e' = n.ret
         /\ surface_config' = n.config
         /\ ret_out' = n.out
         /\ gpu' = n.gpu
         /\ surface_ok' = (surface_ok \/ "configure" \in {n.gpu[i] : i \in DOMAIN n.gpu})
         /\ last_resize' = IF n.ret # None /\ n.ret[1].kind = "resize"
                           THEN Some(n.ret[1].size) ELSE last_resize
    /\ op' = "next"
    /\ arg' = None /\ res' = None /\ ret' = None
    /\ UNCHANGED <<bvars, rvars, svars,
                   rev, draw_size, should_close, pc, surface_texture, command_buffer,
                   panicked>>

\* pistonwindow.rs, draw_2d, up to get_current_texture().unwrap(): called with
\* the event the caller holds.  Not a render tick: return none.  A render tick:
\* ask the surface for its current texture; the unwrap panics when it has none.
Draw2dBegin ==
    /\ rev = "wgpu" /\ ~panicked /\ pc = "idle" /\ e # None
    /\ op' = "draw_2d" /\ arg' = e /\ res' = None /\ ret' = None
    /\ IF render_args(e[1]) = None
       THEN /\ gpu' = <<>>
            /\ UNCHANGED <<pc, surface_texture, panicked>>
       ELSE /\ gpu' = <<"get_current_texture">>
            /\ IF surface_ok
               THEN /\ pc' = "acquired" /\ surface_texture' = "acquired"
                    /\ UNCHANGED panicked
               ELSE /\ panicked' = TRUE
                    /\ UNCHANGED <<pc, surface_texture>>
    /\ UNCHANGED <<bvars, rvars, svars,
                   rev, draw_size, pending, should_close, events, surface_config,
                   ret_out, surface_ok, command_buffer, tick, e, last_resize>>

\* self.g2d.draw(&self.surface_config, &surface_view, viewport, |c, g| f(c, g, device)):
\* the renderer runs the callback once and hands back its result and a command buffer
Draw2dRender(r) ==
    /\ pc = "acquired"
    /\ gpu' = gpu \o <<"g2d.draw", "callback">>
    /\ res' = Some(r)
    /\ command_buffer' = "recorded"
    /\ pc' = "rendered"
    /\ UNCHANGED <<bvars, rvars, svars,
                   rev, draw_size, pending, should_close, events, surface_config,
                   ret_out, surface_ok, surface_texture, op, arg, ret, tick, e, panicked,
                   last_resize>>

\* Mutant of Draw2dSubmit: the command buffer is dropped, not submitted.
Draw2dSubmit_skipped ==
    /\ pc = "rendered"
    /\ pc' = "submitted"
    /\ UNCHANGED <<bvars, rvars, svars,
                   rev, draw_size, pending, should_close, events, surface_config,
                   ret_out, surface_ok, surface_texture, command_buffer, op, arg, gpu,
                   res, ret, tick, e, panicked, last_resize>>

\* self.queue.submit(std::iter::once(command_buffer))
Draw2dSubmit ==
    /\ pc = "rendered"
    /\ gpu' = gpu \o <<"submit">>
    /\ command_buffer' = "submitted"
    /\ pc' = "submitted"
    /\ UNCHANGED <<bvars, rvars, svars,
                   rev, draw_size, pending, should_close, events, surface_config,
                   ret_out, surface_ok, surface_texture, op, arg, res, ret, tick, e,
                   panicked, last_resize>>

\* Mutant of Draw2dPresent: draw_2d returns with the texture still to be presented.
Draw2dPresent_deferred ==
    /\ pc = "submitted"
    /\ ret' = res
    /\ pc' = "idle"
    /\ UNCHANGED <<bvars, rvars, svars,
                   rev, draw_size, pending, should_close, events, surface_config,
                   ret_out, surface_ok, surface_texture, command_buffer, op, arg, gpu,
                   res, tick, e, panicked, last_resize>>

\* surface_texture.present(); Some(res)
Draw2dPresent ==
    /\ pc = "submitted"
    /\ gpu' = gpu \o <<"present">>
    /\ surface_texture' = "none"
    /\ command_buffer' = "none"
    /\ ret' = res
    /\ pc' = "idle"
    /\ UNCHANGED <<bvars, rvars, svars,
                   rev, draw_size, pending, should_close, events, surface_config,
                   ret_out, surface_ok, op, arg, res, tick, e, panicked, last_resize>>

\* prelude.rs, draw_2d, called with the event the caller holds
Draw2dGfx(r) ==
    /\ rev = "gfx" /\ ~panicked /\ e # None
    /\ LET d == draw_2d_gfx(e[1], r) IN
         /\ ret' = d.ret /\ res' = d.res /\ gpu' = d.gpu
    /\ op' = "draw_2d" /\ arg' = e
    /\ UNCHANGED <<bvars, rvars, svars,
                   rev, draw_size, pending, should_close, events, surface_config,
                   ret_out, surface_ok, pc, surface_texture, command_buffer, tick, e,
                   panicked, last_resize>>

\* The event field of an rc window: none in the window the caller built and
\* polls ("self"), the delivered event in the window next() returned ("ret").
EventField(w) == IF w = "self" THEN None ELSE e

\* lib.rs, draw_2d, called on window w
Draw2dRc(w, r) ==
    /\ rev = "rc" /\ ~panicked /\ (w = "ret" => e # None)
    /\ LET d == draw_2d_rc(EventField(w), r) IN
         /\ ret' = d.ret /\ res' = d.res /\ gpu' = d.gpu
    /\ op' = "draw_2d" /\ arg' = EventField(w)
    /\ UNCHANGED <<bvars, rvars, svars,
                   rev, draw_size, pending, should_close, events, surface_config,
                   ret_out, surface_ok, pc, surface_texture, command_buffer, tick, e,
                   panicked, last_resize>>

\* pistonwindow.rs and prelude.rs, draw_3d, called with the event the caller holds
Draw3d(r) ==
    /\ rev \in {"wgpu", "gfx"} /\ ~panicked /\ pc = "idle" /\ e # None
    /\ LET d == IF rev = "wgpu" THEN draw_3d_wgpu(e[1], r) ELSE draw_3d_gfx(e[1], r) IN
         /\ ret' = d.ret /\ res' = d.res /\ gpu' = d.gpu
    /\ op' = "draw_3d" /\ arg' = e
    /\ UNCHANGED <<bvars, rvars, svars,
                   rev, draw_size, pending, should_close, events, surface_config,
                   ret_out, surface_ok, pc, surface_texture, command_buffer, tick, e,
                   panicked, last_resize>>

\* lib.rs, draw_3d, called on window w
Draw3dRc(w, r) ==
    /\ rev = "rc" /\ ~panicked /\ (w = "ret" => e # None)
    /\ LET d == draw_3d_rc(EventField(w), r) IN
         /\ ret' = d.ret /\ res' = d.res /\ gpu' = d.gpu
    /\ op' = "draw_3d" /\ arg' = EventField(w)
    /\ UNCHANGED <<bvars, rvars, svars,
                   rev, draw_size, pending, should_close, events, surface_config,
                   ret_out, surface_ok, pc, surface_texture, command_buffer, tick, e,
                   panicked, last_resize>>

-----------------------------------------------------------------------------
(* lib.rs: the RefCells a window and its clones share *)

\* RefCell::borrow_mut on cell c, given the cells borrowed: it fails when the
\* cell is borrowed already
borrow_mut(b, c) == IF b[c] THEN [ok |-> FALSE, cells |-> b]
                    ELSE [ok |-> TRUE, cells |-> [b EXCEPT ![c] = TRUE]]

\* the end of a RefMut's life
release(b, c) == [b EXCEPT ![c] = FALSE]

\* The event field of the window a call is made on: "self" and "ret" as above,
\* "frame" the window whose draw callback is running (the callback holds it)
RcEvent(w) == IF w = "frame" THEN Some(callback[Len(callback)].ev) ELSE EventField(w)

\* a borrow_mut() on cell c panics (BorrowMutError)
BorrowFailed(c) ==
    /\ panicked' = TRUE
    /\ borrow_failed' = Some(c)

rc_kept == <<rvars, svars, rev, draw_size, should_close, surface_config, surface_ok, pc,
             surface_texture, command_buffer>>

\* lib.rs, Iterator::next on any of the windows: the window is borrowed for the
\* whole call, the event loop while it is polled, the device for the cleanup
\* after the after-render event.  All three are released when it returns.
RcNext ==
    /\ rev = "rc" /\ ~panicked
    /\ op' = "next" /\ arg' = None /\ res' = None /\ ret' = None
    /\ LET w == borrow_mut(borrowed, "window")
           ev == borrow_mut(w.cells, "events")
       IN IF ~w.ok
          THEN /\ BorrowFailed("window")
               /\ UNCHANGED <<tick, events, pending, e, ret_out, gpu, last_resize>>
          ELSE IF ~ev.ok
          THEN /\ BorrowFailed("events")
               /\ UNCHANGED <<tick, events, pending, e, ret_out, gpu, last_resize>>
          ELSE \E o \in EventsNext(events, pending, draw_size, should_close) :
                 LET n == next_rc(o.ret, surface_config, draw_size)
                     d == borrow_mut(release(ev.cells, "events"), "device")
                 IN /\ tick' = o.ret /\ events' = o.state /\ pending' = o.pending
                    /\ IF "cleanup" \in {n.gpu[i] : i \in DOMAIN n.gpu} /\ ~d.ok
                       THEN /\ BorrowFailed("device")
                            /\ UNCHANGED <<e, ret_out, gpu, last_resize>>
                       ELSE /\ e' = n.ret /\ ret_out' = n.out /\ gpu' = n.gpu
                            /\ last_resize' = IF n.ret # None /\ n.ret[1].kind = "resize"
                                              THEN Some(n.ret[1].size) ELSE last_resize
                            /\ UNCHANGED <<panicked, borrow_failed>>
    /\ UNCHANGED <<rc_kept, borrowed, callback>>

\* lib.rs, draw_2d (fn = "draw_2d") and draw_3d on window w, up to the call of
\* the callback f: with a render event the encoder is borrowed and reset, for
\* draw_2d the 2D back-end is borrowed too, and f runs while they are held.
RcDrawBegin(fn, w) ==
    /\ rev = "rc" /\ ~panicked
    /\ w = "ret" => e # None
    /\ w = "frame" => callback # <<>>
    /\ op' = fn /\ arg' = RcEvent(w) /\ res' = None /\ ret' = None
    /\ IF RcEvent(w) = None \/ render_args(RcEvent(w)[1]) = None
       THEN /\ gpu' = <<>>
            /\ UNCHANGED <<panicked, bvars>>
       ELSE LET enc == borrow_mut(borrowed, "encoder")
                g == IF fn = "draw_2d" THEN borrow_mut(enc.cells, "g2d") ELSE enc
            IN IF ~enc.ok
               THEN /\ BorrowFailed("encoder")
                    /\ gpu' = <<>>
                    /\ UNCHANGED <<borrowed, callback>>
               ELSE IF ~g.ok
               THEN /\ BorrowFailed("g2d")
                    /\ gpu' = <<"encoder.reset">>
                    /\ UNCHANGED <<borrowed, callback>>
               ELSE /\ borrowed' = g.cells
                    /\ callback' = Append(callback, [fn |-> fn, ev |-> RcEvent(w)[1]])
                    /\ gpu' = <<"encoder.reset">>
                    /\ UNCHANGED <<panicked, borrow_failed>>
    /\ UNCHANGED <<rc_kept, tick, events, pending, e, ret_out, last_resize>>

\* ... and from the return of f, which returned r: the 2D back-end is released,
\* the device is borrowed for the submit, then it and the encoder are released.
RcDrawEnd(r) ==
    /\ rev = "rc" /\ ~panicked
    /\ callback # <<>>
    /\ LET f == callback[Len(callback)]
           done == IF f.fn = "draw_2d" THEN release(borrowed, "g2d") ELSE borrowed
           d == borrow_mut(done, "device")
           call == IF f.fn = "draw_2d" THEN draw_2d_rc(Some(f.ev), r)
                   ELSE draw_3d_rc(Some(f.ev), r)
       IN /\ op' = f.fn /\ arg' = Some(f.ev)
          /\ IF ~d.ok
             THEN /\ BorrowFailed("device")
                  /\ UNCHANGED <<gpu, res, ret, borrowed, callback>>
             ELSE /\ gpu' = call.gpu /\ res' = call.res /\ ret' = call.ret
                  /\ borrowed' = release(release(d.cells, "device"), "encoder")
                  /\ callback' = SubSeq(callback, 1, Len(callback) - 1)
                  /\ UNCHANGED <<panicked, borrow_failed>>
    /\ UNCHANGED <<rc_kept, tick, events, pending, e, ret_out, last_resize>>

-----------------------------------------------------------------------------
(* piston_script.rs: run() and the ambient handles *)

\* The handles run() registers, in the order of its CurrentGuard::new calls
install_order ==
    <<"window", "event", "glyphs", "font_names", "images", "image_names",
      "texture_context", "textures", "gl", "events", "audio_manager", "music_track",
      "sounds", "music">>

\* Mutant of drop_order: the guards are dropped in the order they were made.
drop_order_forward == install_order

\* The order of the drop(..) calls on the success path
drop_order ==
    <<"music", "sounds", "music_track", "audio_manager", "events", "gl", "textures",
      "texture_context", "image_names", "images", "font_names", "glyphs", "event",
      "window">>

Reverse(s) == [i \in 1..Len(s) |-> s[Len(s) + 1 - i]]

\* Leaving run() through `?`: the guards still alive are locals and are dropped
\* in the reverse of their declaration order.
scope_exit_order == Reverse(install_order)

Keys == {install_order[i] : i \in DOMAIN install_order}

\* Handles some caller of run() may have registered itself before the session
OuterKeys == {"window", "event", "music"}

\* CurrentGuard::new(&mut val): registers val under its type and keeps what was
\* registered before.
GuardNew(k, reg) == [guard |-> [key |-> k, old |-> reg[k]],
                     reg |-> [reg EXCEPT ![k] = Some("run")]]

\* Drop of a CurrentGuard: puts back what was registered before (or removes
\* the registration when there was none).
GuardDrop(g, reg) == [reg EXCEPT ![g.key] = g.old]

\* What a host function returns to the script: Ok(()), Ok(bool), Ok(n), Err(msg)
RetOk == [tag |-> "Ok", msg |-> "", n |-> 0]
RetBool(b) == [tag |-> IF b THEN "true" ELSE "false", msg |-> "", n |-> 0]
RetNum(n) == [tag |-> "Num", msg |-> "", n |-> n]
Err(msg) == [tag |-> "Err", msg |-> msg, n |-> 0]

\* Names the script binds sounds and music under, and the files it names
Names == {"n1", "n2"}
Files == {"boom.wav", "missing.wav"}

\* The tables run() builds before it registers them: the two built-in fonts,
\* no image, no texture, no sound, no music; no host function called yet.
NoScript ==
    /\ sounds = [n \in Names |-> None]
    /\ music = [n \in Names |-> None]
    /\ glyphs = <<"FiraSans-Regular", "Hack-Regular">>
    /\ font_names = <<"FiraSans-Regular", "Hack-Regular">>
    /\ images = <<>>
    /\ textures = <<>>
    /\ host = None
    /\ host_ret = None
    /\ audio = <<>>
    /\ reads = <<>>
    /\ sound_loads = [n \in Names |-> 0]
    /\ draw_calls = <<>>
    /\ issued = [textures |-> <<>>, fonts |-> <<>>]

NoRun ==
    /\ current = [k \in Keys |-> None]
    /\ guards = <<>>
    /\ run_pc = "none"
    /\ runs = 0
    /\ run_ret = None
    /\ released = <<>>
    /\ pre = [k \in Keys |-> None]

\* The coordinator run() builds, left alone while run() itself is followed
QuietCoordinator == InitCoordinator /\ rev = "wgpu" /\ draw_size = <<2, 1>>

\* run() is called; the caller may hold registrations of its own.
InitRun ==
    /\ QuietCoordinator
    /\ NoScript
    /\ pre \in {[k \in Keys |-> IF k \in S THEN Some("outer") ELSE None] :
                  S \in SUBSET OuterKeys}
    /\ current = pre
    /\ guards = <<>>
    /\ run_pc = "load_module"
    /\ runs = 0
    /\ run_ret = None
    /\ released = <<>>

\* load_module: none => return Err(()), before any handle is registered
RunLoadModule(loaded) ==
    /\ run_pc = "load_module"
    /\ IF loaded
       THEN run_pc' = "install" /\ UNCHANGED run_ret
       ELSE run_pc' = "returned_early" /\ run_ret' = Some("Err")
    /\ UNCHANGED <<bvars, cvars, svars, current, guards, runs, released, pre>>

\* let .._guard = CurrentGuard::new(&mut ..): the next of the 14 registrations
RunInstall ==
    /\ run_pc = "install"
    /\ LET i == Len(guards) + 1
           n == GuardNew(install_order[i], current)
       IN /\ guards' = Append(guards, n.guard)
          /\ current' = n.reg
          /\ run_pc' = IF i = Len(install_order) THEN "f" ELSE "install"
    /\ UNCHANGED <<bvars, cvars, svars, runs, run_ret, released, pre>>

\* Inside f: the closure runs the script, which fails or not; f is told.
RunScript(failed) ==
    /\ run_pc = "f"
    /\ runs < MaxRuns
    /\ runs' = runs + 1
    /\ UNCHANGED <<bvars, cvars, svars, current, guards, run_pc, run_ret, released, pre>>

\* f(..)?: f returns.  Ok: the drop calls follow.  Err: `?` leaves run().
RunFReturn(result) ==
    /\ run_pc = "f"
    /\ run_pc' = IF result = "Ok" THEN "drop" ELSE "scope_exit"
    /\ UNCHANGED <<bvars, cvars, svars, current, guards, runs, run_ret, released, pre>>

\* One guard is dropped: the one `order` names next.
DropNext(order, result) ==
    LET k == order[Len(released) + 1]
        g == CHOOSE x \in {guards[i] : i \in DOMAIN guards} : x.key = k
    IN /\ current' = GuardDrop(g, current)
       /\ guards' = SelectSeq(guards, LAMBDA x : x.key # k)
       /\ released' = Append(released, k)
       /\ IF Len(released) + 1 = Len(order)
          THEN run_pc' = "returned" /\ run_ret' = Some(result)
          ELSE UNCHANGED <<run_pc, run_ret>>

\* drop(music_guard); ... drop(window_guard); Ok(())
RunDrop ==
    /\ run_pc = "drop"
    /\ DropNext(drop_order, "Ok")
    /\ UNCHANGED <<bvars, cvars, svars, runs, pre>>

\* return Err(()) through `?`: the guards go out of scope
RunScopeExit ==
    /\ run_pc = "scope_exit"
    /\ DropNext(scope_exit_order, "Err")
    /\ UNCHANGED <<bvars, cvars, svars, runs, pre>>

NextRun ==
    \/ \E loaded \in BOOLEAN : RunLoadModule(loaded)
    \/ RunInstall
    \/ \E failed \in BOOLEAN : RunScript(failed)
    \/ \E result \in {"Ok", "Err"} : RunFReturn(result)
    \/ RunDrop
    \/ RunScopeExit

SpecRun == InitRun /\ [][NextRun]_vars

Init == InitCoordinator /\ NoRun /\ NoScript

Next ==
    \/ \E s \in Sizes : WindowResized(s)
    \/ WindowInput
    \/ CloseRequested
    \/ SurfaceLost
    \/ IteratorNext
    \/ Draw2dBegin
    \/ \E r \in Results : Draw2dRender(r)
    \/ Draw2dSubmit
    \/ Draw2dPresent
    \/ \E r \in Results : Draw2dGfx(r)
    \/ \E w \in {"self", "ret"}, r \in Results : Draw2dRc(w, r)
    \/ \E r \in Results : Draw3d(r)
    \/ \E w \in {"self", "ret"}, r \in Results : Draw3dRc(w, r)

Spec == Init /\ [][Next]_vars

\* The Rc/RefCell wrapper with its clones and the callbacks in progress
InitRc == InitCoordinator /\ rev = "rc" /\ NoRun /\ NoScript

NextRc ==
    \/ \E s \in Sizes : WindowResized(s)
    \/ WindowInput
    \/ CloseRequested
    \/ RcNext
    \/ \E fn \in {"draw_2d", "draw_3d"}, w \in {"self", "ret", "frame"} : RcDrawBegin(fn, w)
    \/ \E r \in Results : RcDrawEnd(r)

SpecRc == InitRc /\ [][NextRc]_vars

-----------------------------------------------------------------------------
(* piston_script.rs: the audio host functions *)

\* most whole number of plays a script asks for in one call
MaxRepeat == 3

\* A script number (f64) that need not be whole is kept in halves: h stands
\* for h / 2.
Whole(n) == 2 * n
\* the repeat values a script passes: -2, -1, 0, 0.5, the whole numbers
\* 1 .. MaxRepeat, and MaxRepeat + 0.5
Repeats == {Whole(-2), Whole(-1), 0, 1} \cup {Whole(n) : n \in 1..MaxRepeat}
               \cup {Whole(MaxRepeat) + 1}
\* Mutant of RepeatAsU32: the cast rounds half up instead of truncating.
RepeatAsU32_rounding(h) == IF h < 0 THEN 0 ELSE (h + 1) \div 2

\* Mutant of RepeatAsU32: one too many.
RepeatAsU32_plus_one(h) == IF h < 0 THEN 0 ELSE h \div 2 + 1

\* `repeat as u32`: truncates toward zero, negative values give 0
RepeatAsU32(h) == IF h < 0 THEN 0 ELSE h \div 2

\* the amplitudes a script passes as volume
Volumes == {0, 1}
Log10(a) == CASE a = 1 -> 0
\* kira::Decibels::SILENCE, in dB
SILENCE == -60
amplitude_to_decibels(amplitude) ==
    IF amplitude <= 0 THEN SILENCE ELSE 20 * Log10(amplitude)

\* Storage: from_file succeeds for a file that is there and decodes.
Loadable(file) == file \notin {"missing.wav", "missing.ttf"}
\* The duration of decoded data, in ticks
Duration(data) == IF data = "boom.wav" THEN 3 ELSE 5
\* How many more sounds a track accepts when a host function is called: every
\* play beyond that returns an error.  Either the track is full, or it has
\* room for one sound, or for all that one call can ask for.
Capacity == {0, 1, MaxRepeat + 1}

\* One call on a track or on a handle.  h numbers the handles the host call
\* obtained from play, in order; ok tells whether the call succeeded.
AudioCall(c, t, f, l, v, h, a, ok) ==
    [call |-> c, track |-> t, file |-> f, loop |-> l, vol |-> v, h |-> h, at |-> a,
     ok |-> ok]
Play(t, f, l, v, h, free) == AudioCall("play", t, f, l, v, h, 0, h <= free)
Entry(file, data) == Some([file |-> file, data |-> data])
Outcome(tbl, a, r, p) == [table |-> tbl, audio |-> a, reads |-> r, panicked |-> p]

\* Mutant of bind: the file is decoded when it is bound.
bind_eager(name, file, tbl) == [tbl EXCEPT ![name] = Entry(file, Some(file))]

\* bind_sound__name_file / bind_music__name_file: insert(name, (file, None))
bind(name, file, tbl) == [tbl EXCEPT ![name] = Entry(file, None)]

\* Mutant of first_play: the data read is not cached.
first_play_uncached(name, loop, volume, tbl, free) ==
    LET file == tbl[name][1].file
        sound_data == tbl[name][1].data
        vol == amplitude_to_decibels(volume)
    IN IF sound_data # None
       THEN Outcome(tbl, <<Play("main", sound_data[1], loop, vol, 1, free)>>, <<>>, FALSE)
       ELSE IF ~Loadable(file)
            THEN Outcome(tbl, <<>>, <<file>>, TRUE)
            ELSE Outcome(tbl, <<Play("main", file, loop, vol, 1, free)>>, <<file>>, FALSE)

\* Mutant of first_play: the loop region is not set.
first_play_unlooped(name, loop, volume, tbl, free) ==
    LET file == tbl[name][1].file
        sound_data == tbl[name][1].data
        vol == amplitude_to_decibels(volume)
    IN IF sound_data # None
       THEN Outcome(tbl, <<Play("main", sound_data[1], FALSE, vol, 1, free)>>, <<>>, FALSE)
       ELSE IF ~Loadable(file)
            THEN Outcome(tbl, <<>>, <<file>>, TRUE)
            ELSE Outcome([tbl EXCEPT ![name] = Entry(file, Some(file))],
                         <<Play("main", file, loop, vol, 1, free)>>, <<file>>, FALSE)

\* play_sound: the first play of either branch.  Cached data is played; data
\* not yet cached is read from the file (the unwrap panics when that fails),
\* played and cached.  The result of this play is discarded.
first_play(name, loop, volume, tbl, free) ==
    LET file == tbl[name][1].file
        sound_data == tbl[name][1].data
        vol == amplitude_to_decibels(volume)
    IN IF sound_data # None
       THEN Outcome(tbl, <<Play("main", sound_data[1], loop, vol, 1, free)>>, <<>>, FALSE)
       ELSE IF ~Loadable(file)
            THEN Outcome(tbl, <<>>, <<file>>, TRUE)
            ELSE Outcome([tbl EXCEPT ![name] = Entry(file, Some(file))],
                         <<Play("main", file, loop, vol, 1, free)>>, <<file>>, FALSE)

\* for _ in 1..repeat as u32 { play(..).unwrap(); pause; resume_at(Delayed(start));
\* start += duration }: the iterations from handle h on, n = repeat as u32
RECURSIVE schedule_sound(_, _, _, _, _, _, _)
schedule_sound(h, n, data, vol, start, duration, free) ==
    IF h > n THEN [audio |-> <<>>, panicked |-> FALSE]
    ELSE IF h > free
    THEN [audio |-> <<Play("main", data, FALSE, vol, h, free)>>, panicked |-> TRUE]
    ELSE LET rest == schedule_sound(h + 1, n, data, vol, start + duration, duration, free)
         IN [audio |-> <<Play("main", data, FALSE, vol, h, free),
                         AudioCall("pause", "main", data, FALSE, vol, h, 0, TRUE),
                         AudioCall("resume_at", "main", data, FALSE, vol, h, start, TRUE)>>
                       \o rest.audio,
             panicked |-> rest.panicked]

\* Mutant of play_sound__name_repeat_volume: a repeat of 0 plays once.
play_sound_zero_plays(name, repeat, volume, tbl, free) ==
    IF tbl[name] = None THEN Outcome(tbl, <<>>, <<>>, FALSE)
    ELSE first_play(name, repeat = Whole(-1), volume, tbl, free)

\* play_sound__name_repeat_volume
play_sound__name_repeat_volume(name, repeat, volume, tbl, free) ==
    IF tbl[name] = None THEN Outcome(tbl, <<>>, <<>>, FALSE)
    ELSE IF repeat = Whole(-1) THEN first_play(name, TRUE, volume, tbl, free)
    ELSE IF repeat # 0
    THEN LET first == first_play(name, FALSE, volume, tbl, free) IN
         IF first.panicked THEN first
         ELSE LET data == first.table[name][1].data[1]
                  duration == Duration(data)
                  later == schedule_sound(2, RepeatAsU32(repeat), data,
                                          amplitude_to_decibels(volume), duration,
                                          duration, free)
              IN Outcome(first.table, first.audio \o later.audio, first.reads,
                         later.panicked)
    ELSE Outcome(tbl, <<>>, <<>>, FALSE)

\* Mutant of play_sound_forever__name_volume: cached data is read again.
play_sound_forever_reloads(name, volume, tbl, free) ==
    IF tbl[name] = None THEN Outcome(tbl, <<>>, <<>>, FALSE)
    ELSE first_play(name, TRUE, volume, [tbl EXCEPT ![name] = Entry(@[1].file, None)], free)

\* play_sound_forever__name_volume (lines 417-437).  Cached data is played with
\* the loop region set: loop_region(..) is called on the cached data itself, not
\* on a clone of it as in play_sound; it borrows the data and returns a changed
\* copy, so the cached data stays as it was.  Data not yet cached is read from
\* the file (the unwrap panics when that fails), played looping and cached.
\* The result of the play is discarded.
play_sound_forever__name_volume(name, volume, tbl, free) ==
    IF tbl[name] = None THEN Outcome(tbl, <<>>, <<>>, FALSE)
    ELSE LET file == tbl[name][1].file
             sound_data == tbl[name][1].data
             vol == amplitude_to_decibels(volume)
         IN IF sound_data # None
            THEN Outcome(tbl, <<Play("main", sound_data[1], TRUE, vol, 1, free)>>, <<>>, FALSE)
            ELSE IF ~Loadable(file)
                 THEN Outcome(tbl, <<>>, <<file>>, TRUE)
                 ELSE Outcome([tbl EXCEPT ![name] = Entry(file, Some(file))],
                              <<Play("main", file, TRUE, vol, 1, free)>>, <<file>>, FALSE)

\* A streaming handle the music table caches: the file it streams and its
\* number among the handles of the call that made it
Handle(file, h) == [file |-> file, h |-> h]

\* play_music with repeat == -1.0 (lines 449-459): a cached handle has
\* its loop region set and is resumed; without one the file is opened as a
\* stream, played looping on the music track, and the handle is cached.
loop_music(name, tbl, free) ==
    LET file == tbl[name][1].file
        sound_handle == tbl[name][1].data
    IN IF sound_handle # None
       THEN Outcome(tbl,
                    <<AudioCall("set_loop_region", "music", sound_handle[1].file, TRUE, 0,
                                sound_handle[1].h, 0, TRUE),
                      AudioCall("resume", "music", sound_handle[1].file, TRUE, 0,
                                sound_handle[1].h, 0, TRUE)>>,
                    <<>>, FALSE)
       ELSE IF ~Loadable(file) THEN Outcome(tbl, <<>>, <<file>>, TRUE)
       ELSE IF 1 > free
            THEN Outcome(tbl, <<Play("music", file, TRUE, 0, 1, free)>>, <<file>>, TRUE)
            ELSE Outcome([tbl EXCEPT ![name] = Entry(file, Some(Handle(file, 1)))],
                         <<Play("music", file, TRUE, 0, 1, free)>>, <<file>>, FALSE)

\* for _ in 1..repeat as u32 { from_file(..).unwrap(); play(..).unwrap(); pause;
\* resume_at(Delayed(start)); start += duration }
RECURSIVE schedule_music(_, _, _, _, _, _)
schedule_music(h, n, file, start, duration, free) ==
    IF h > n THEN [audio |-> <<>>, reads |-> <<>>, panicked |-> FALSE]
    ELSE IF ~Loadable(file) THEN [audio |-> <<>>, reads |-> <<file>>, panicked |-> TRUE]
    ELSE IF h > free
    THEN [audio |-> <<Play("music", file, FALSE, 0, h, free)>>, reads |-> <<file>>,
          panicked |-> TRUE]
    ELSE LET rest == schedule_music(h + 1, n, file, start + duration, duration, free)
         IN [audio |-> <<Play("music", file, FALSE, 0, h, free),
                         AudioCall("pause", "music", file, FALSE, 0, h, 0, TRUE),
                         AudioCall("resume_at", "music", file, FALSE, 0, h, start, TRUE)>>
                       \o rest.audio,
             reads |-> <<file>> \o rest.reads,
             panicked |-> rest.panicked]

\* Mutant of play_music__name_repeat: the instances after the first replay the
\* first stream, no file is opened for them.
play_music_one_stream(name, repeat, tbl, free) ==
    IF tbl[name] = None THEN Outcome(tbl, <<>>, <<>>, FALSE)
    ELSE IF repeat = Whole(-1) THEN loop_music(name, tbl, free)
    ELSE IF repeat # 0
    THEN LET file == tbl[name][1].file IN
         IF ~Loadable(file) THEN Outcome(tbl, <<>>, <<file>>, TRUE)
         ELSE IF 1 > free
         THEN Outcome(tbl, <<Play("music", file, FALSE, 0, 1, free)>>, <<file>>, TRUE)
         ELSE LET later == schedule_music(2, RepeatAsU32(repeat), file, Duration(file),
                                          Duration(file), free)
              IN Outcome([tbl EXCEPT ![name] = Entry(file, Some(Handle(file, 1)))],
                         <<Play("music", file, FALSE, 0, 1, free)>> \o later.audio,
                         <<file>>, later.panicked)
    ELSE Outcome(tbl, <<>>, <<>>, FALSE)

\* play_music__name_repeat
play_music__name_repeat(name, repeat, tbl, free) ==
    IF tbl[name] = None THEN Outcome(tbl, <<>>, <<>>, FALSE)
    ELSE IF repeat = Whole(-1) THEN loop_music(name, tbl, free)
    ELSE IF repeat # 0
    THEN LET file == tbl[name][1].file IN
         IF ~Loadable(file) THEN Outcome(tbl, <<>>, <<file>>, TRUE)
         ELSE IF 1 > free
         THEN Outcome(tbl, <<Play("music", file, FALSE, 0, 1, free)>>, <<file>>, TRUE)
         ELSE LET duration == Duration(file)
                  later == schedule_music(2, RepeatAsU32(repeat), file, duration,
                                          duration, free)
              IN Outcome([tbl EXCEPT ![name] = Entry(file, Some(Handle(file, 1)))],
                         <<Play("music", file, FALSE, 0, 1, free)>> \o later.audio,
                         <<file>> \o later.reads, later.panicked)
    ELSE Outcome(tbl, <<>>, <<>>, FALSE)

\* Mutant of play_music_forever__name: a name that is not bound is taken for a
\* file and bound to it.
play_music_forever_binds(name, tbl, free) ==
    IF tbl[name] = None
    THEN Outcome([tbl EXCEPT ![name] = Entry(name, None)], <<>>, <<name>>, FALSE)
    ELSE loop_music(name, tbl, free)

\* play_music_forever__name (lines 481-501): a cached handle has its loop
\* region set and is resumed; without one the file is opened as a stream (the
\* unwrap panics when that fails), played looping on the music track (the
\* unwrap panics when the track refuses it), and the handle is cached.
play_music_forever__name(name, tbl, free) ==
    IF tbl[name] = None THEN Outcome(tbl, <<>>, <<>>, FALSE)
    ELSE LET file == tbl[name][1].file
             sound_handle == tbl[name][1].data
         IN IF sound_handle # None
            THEN Outcome(tbl,
                         <<AudioCall("set_loop_region", "music", sound_handle[1].file, TRUE,
                                     0, sound_handle[1].h, 0, TRUE),
                           AudioCall("resume", "music", sound_handle[1].file, TRUE, 0,
                                     sound_handle[1].h, 0, TRUE)>>,
                         <<>>, FALSE)
            ELSE IF ~Loadable(file) THEN Outcome(tbl, <<>>, <<file>>, TRUE)
            ELSE IF 1 > free
                 THEN Outcome(tbl, <<Play("music", file, TRUE, 0, 1, free)>>, <<file>>, TRUE)
                 ELSE Outcome([tbl EXCEPT ![name] = Entry(file, Some(Handle(file, 1)))],
                              <<Play("music", file, TRUE, 0, 1, free)>>, <<file>>, FALSE)

-----------------------------------------------------------------------------
(* The script session as a state machine: the audio host functions *)

\* run() is inside f: the 14 handles are registered, the script is running.
InSession ==
    /\ pre = [k \in Keys |-> None]
    /\ current = [k \in Keys |-> Some("run")]
    /\ guards = [i \in DOMAIN install_order |-> [key |-> install_order[i], old |-> None]]
    /\ run_pc = "f"
    /\ runs = 1
    /\ run_ret = None
    /\ released = <<>>

\* the coordinator's variables a host function that may panic leaves alone
cvars_kept == <<rev, draw_size, pending, should_close, events, surface_config, ret_out,
                surface_ok, pc, surface_texture, command_buffer, op, arg, gpu, res, ret,
                tick, e, last_resize>>

HostCall(fn, args) == Some([fn |-> fn, args |-> args])

InitAudio == QuietCoordinator /\ InSession /\ NoScript

\* the script calls bind_sound(name, file)
BindSound(name, file) ==
    /\ ~panicked /\ run_pc = "f"
    /\ sounds' = bind(name, file, sounds)
    /\ sound_loads' = [sound_loads EXCEPT ![name] = 0]
    /\ host' = HostCall("bind_sound", <<name, file>>)
    /\ host_ret' = Some(RetOk)
    /\ audio' = <<>> /\ reads' = <<>>
    /\ UNCHANGED <<bvars, cvars, rvars, music, glyphs, font_names, images, textures, draw_calls, issued>>

\* the script calls bind_music(name, file)
BindMusic(name, file) ==
    /\ ~panicked /\ run_pc = "f"
    /\ music' = bind(name, file, music)
    /\ host' = HostCall("bind_music", <<name, file>>)
    /\ host_ret' = Some(RetOk)
    /\ audio' = <<>> /\ reads' = <<>>
    /\ UNCHANGED <<bvars, cvars, rvars, sounds, sound_loads, glyphs, font_names, images, textures,
                   draw_calls, issued>>

\* What a call on the sound table leaves behind: o is the outcome of the host
\* function.  A panic unwinds out of the script: nothing is returned to it.
SoundCallDone(name, o) ==
    /\ sounds' = o.table
    /\ audio' = o.audio
    /\ reads' = o.reads
    /\ panicked' = o.panicked
    /\ host_ret' = IF o.panicked THEN None ELSE Some(RetOk)
    /\ sound_loads' = [sound_loads EXCEPT ![name] = @ + Len(o.reads)]
    /\ UNCHANGED <<bvars, cvars_kept, rvars, music, glyphs, font_names, images, textures,
                   draw_calls, issued>>

MusicCallDone(o) ==
    /\ music' = o.table
    /\ audio' = o.audio
    /\ reads' = o.reads
    /\ panicked' = o.panicked
    /\ host_ret' = IF o.panicked THEN None ELSE Some(RetOk)
    /\ UNCHANGED <<bvars, cvars_kept, rvars, sounds, sound_loads, glyphs, font_names, images,
                   textures, draw_calls, issued>>

\* the script calls play_sound(name, repeat, volume); the main track accepts
\* `free` more sounds
PlaySound(name, repeat, volume, free) ==
    /\ ~panicked /\ run_pc = "f"
    /\ host' = HostCall("play_sound", <<name, repeat, volume>>)
    /\ SoundCallDone(name, play_sound__name_repeat_volume(name, repeat, volume, sounds, free))

\* the script calls play_sound_forever(name, volume)
PlaySoundForever(name, volume, free) ==
    /\ ~panicked /\ run_pc = "f"
    /\ host' = HostCall("play_sound_forever", <<name, volume>>)
    /\ SoundCallDone(name, play_sound_forever__name_volume(name, volume, sounds, free))

\* the script calls play_music(name, repeat); the music track accepts `free`
\* more sounds
PlayMusic(name, repeat, free) ==
    /\ ~panicked /\ run_pc = "f"
    /\ host' = HostCall("play_music", <<name, repeat>>)
    /\ MusicCallDone(play_music__name_repeat(name, repeat, music, free))

\* the script calls play_music_forever(name)
PlayMusicForever(name, free) ==
    /\ ~panicked /\ run_pc = "f"
    /\ host' = HostCall("play_music_forever", <<name>>)
    /\ MusicCallDone(play_music_forever__name(name, music, free))

NextAudio ==
    \/ \E name \in Names, file \in Files : BindSound(name, file)
    \/ \E name \in Names, file \in Files : BindMusic(name, file)
    \/ \E name \in Names, repeat \in Repeats, volume \in Volumes, free \in Capacity :
         PlaySound(name, repeat, volume, free)
    \/ \E name \in Names, volume \in Volumes, free \in Capacity :
         PlaySoundForever(name, volume, free)
    \/ \E name \in Names, repeat \in Repeats, free \in Capacity :
         PlayMusic(name, repeat, free)
    \/ \E name \in Names, free \in Capacity : PlayMusicForever(name, free)

SpecAudio == InitAudio /\ [][NextAudio]_vars

-----------------------------------------------------------------------------
(* The script session as a state machine: next_event and draw *)

\* dyon_interactive::NO_EVENT and the message of line 238
NO_EVENT == "No event"
DrawingFailed == "Drawing failed"
\* what the drawing callback (dyon_interactive::draw_2d) returns
DrawResults == {RetOk, Err("draw list")}

\* Mutant of next_event: the script is always told there is an event.
next_event_always(t) == [event |-> t, ret |-> TRUE]

\* next_event, given what events.next(window) returned: the ambient current
\* event becomes that, and the script is told whether it is an event
next_event(t) == IF t # None THEN [event |-> Some(t[1]), ret |-> TRUE]
                 ELSE [event |-> None, ret |-> FALSE]

\* pistonwindow.rs, draw_2d as one call: ok tells whether the surface has a
\* current texture to hand out
draw_2d_wgpu(ev, r, ok) ==
    IF render_args(ev) = None
    THEN [ret |-> None, res |-> None, gpu |-> <<>>, panicked |-> FALSE]
    ELSE IF ~ok
    THEN [ret |-> None, res |-> None, gpu |-> <<"get_current_texture">>, panicked |-> TRUE]
    ELSE [ret |-> Some(r), res |-> Some(r),
          gpu |-> <<"get_current_texture", "g2d.draw", "callback", "submit", "present">>,
          panicked |-> FALSE]

\* draw: cur is the ambient current event, r what the drawing callback returns.
\* calls lists the calls of window.draw_2d it makes, with their outcomes.
draw(cur, r, ok) ==
    IF cur = None THEN [ret |-> Err(NO_EVENT), calls |-> <<>>, panicked |-> FALSE]
    ELSE IF render_args(cur[1]) # None
    THEN LET d == draw_2d_wgpu(cur[1], r, ok)
         IN [ret |-> IF d.ret # None THEN d.ret[1] ELSE Err(DrawingFailed),
             calls |-> <<d>>, panicked |-> d.panicked]
    ELSE [ret |-> RetOk, calls |-> <<>>, panicked |-> FALSE]

\* run() built the window (the wgpu coordinator) and is inside f
InitEvents == InitCoordinator /\ rev = "wgpu" /\ InSession /\ NoScript

\* The script calls next_event().  The ticker asked is the one run() made and
\* registered (line 73), with the coordinator as its window.
ScriptNextEvent ==
    /\ ~panicked /\ run_pc = "f"
    /\ \E o \in EventsNext(events, pending, draw_size, should_close) :
         LET n == next_event(o.ret) IN
         /\ tick' = o.ret
         /\ events' = o.state
         /\ pending' = o.pending
         /\ e' = n.event
         /\ host_ret' = Some(RetBool(n.ret))
    /\ host' = HostCall("next_event", <<>>)
    /\ draw_calls' = <<>>
    /\ UNCHANGED <<bvars, rvars, rev, draw_size, should_close, surface_config, ret_out, surface_ok,
                   pc, surface_texture, command_buffer, op, arg, gpu, res, ret, panicked,
                   last_resize, sounds, music, glyphs, font_names, images, textures,
                   audio, reads, sound_loads, issued>>

\* The script calls draw(draw_list); r is what replaying the list returns.
ScriptDraw(r) ==
    /\ ~panicked /\ run_pc = "f"
    /\ LET d == draw(e, r, surface_ok) IN
         /\ host_ret' = IF d.panicked THEN None ELSE Some(d.ret)
         /\ draw_calls' = d.calls
         /\ panicked' = d.panicked
         /\ IF d.calls # <<>>
            THEN /\ op' = "draw_2d" /\ arg' = e
                 /\ gpu' = d.calls[1].gpu /\ res' = d.calls[1].res /\ ret' = d.calls[1].ret
            ELSE UNCHANGED <<op, arg, gpu, res, ret>>
    /\ host' = HostCall("draw", <<>>)
    /\ UNCHANGED <<bvars, rvars, rev, draw_size, pending, should_close, events, surface_config,
                   ret_out, surface_ok, pc, surface_texture, command_buffer, tick, e,
                   last_resize, sounds, music, glyphs, font_names, images, textures,
                   audio, reads, sound_loads, issued>>

NextEvents ==
    \/ \E s \in Sizes : WindowResized(s)
    \/ WindowInput
    \/ CloseRequested
    \/ SurfaceLost
    \/ ScriptNextEvent
    \/ \E r \in DrawResults : ScriptDraw(r)

SpecEvents == InitEvents /\ [][NextEvents]_vars

-----------------------------------------------------------------------------
(* piston_script.rs: the texture and font host functions *)

\* most images the script loads, textures it creates, fonts it loads
MaxImages == 1
MaxTextures == 2
MaxFonts == 1

\* decoded images; "io" is the image a script holds as an object
ImageData == {"ia", "ib"}
FontFiles == {"font.ttf", "missing.ttf"}

\* A script value passed as image or texture: a number (an id), an object
\* holding an image or a texture, or something else
Number(k) == [ty |-> "f64", id |-> k, obj |-> "-"]
Object(o) == [ty |-> "object", id |-> 0, obj |-> o]
\* ids a script passes: negative, the first two indices, one beyond every table
Ids == {-1, 0, 1, 9}
Values == {Number(k) : k \in Ids} \cup {Object("RgbaImage"), Object("Texture")}
              \cup {[ty |-> "str", id |-> 0, obj |-> "-"]}
RetObj == [tag |-> "Obj", msg |-> "", n |-> 0]
\* a script result value: ok(n), ok(object), err(msg)
ResOk(n) == [tag |-> "ok", msg |-> "", n |-> n]
ResOkObj == [tag |-> "ok(Obj)", msg |-> "", n |-> 0]
ResErr(msg) == [tag |-> "err", msg |-> msg, n |-> 0]

\* `id as usize` of an f64 holding a whole number: negative values give 0
F64AsUsize(x) == IF x < 0 THEN 0 ELSE x
\* Vec::get(i): the element at the 0-based index i, if there is one
Get(v, i) == IF i < Len(v) THEN Some(v[i + 1]) ELSE None

TableOutcome(r, texs) == [ret |-> r, textures |-> texs]

\* Mutant of create_texture: the new texture takes the place of the last one
\* instead of being appended.
create_texture_overwriting(image, imgs, texs, gpu_ok) ==
    LET x == Get(imgs, F64AsUsize(image.id)) IN
    IF image.ty # "f64" \/ x = None \/ ~gpu_ok THEN TableOutcome(Err("no texture"), texs)
    ELSE IF texs = <<>> THEN TableOutcome(RetNum(0), <<x[1]>>)
    ELSE TableOutcome(RetNum(Len(texs) - 1), [texs EXCEPT ![Len(texs)] = x[1]])

\* Mutant of create_texture: the id is taken after the texture is pushed.
create_texture_id_after_push(image, imgs, texs, gpu_ok) ==
    LET x == Get(imgs, F64AsUsize(image.id)) IN
    IF image.ty # "f64" \/ x = None \/ ~gpu_ok THEN TableOutcome(Err("no texture"), texs)
    ELSE TableOutcome(RetNum(Len(texs) + 1), Append(texs, x[1]))

\* create_texture: gpu_ok tells whether the device can make the texture
create_texture(image, imgs, texs, gpu_ok) ==
    IF image.ty = "f64"
    THEN LET x == Get(imgs, F64AsUsize(image.id)) IN
         IF x = None THEN TableOutcome(Err("Image id is out of bounds"), texs)
         ELSE IF ~gpu_ok THEN TableOutcome(Err("Could not create texture"), texs)
         ELSE TableOutcome(RetNum(Len(texs)), Append(texs, x[1]))
    ELSE IF image.ty = "object"
    THEN IF image.obj # "RgbaImage" THEN TableOutcome(Err("Expected RgbaImage"), texs)
         ELSE TableOutcome(RetObj, texs)
    ELSE TableOutcome(Err("Expected f64 (image id) or any (rust object)"), texs)

\* update__texture_image, once the image is at hand: data is its content
update_texture(texture, data, texs, gpu_ok) ==
    IF texture.ty = "f64"
    THEN LET i == F64AsUsize(texture.id) IN
         IF Get(texs, i) = None THEN TableOutcome(Err("Texture id is out of bounds"), texs)
         ELSE IF ~gpu_ok THEN TableOutcome(Err("Could not update texture"), texs)
         ELSE TableOutcome(RetOk, [texs EXCEPT ![i + 1] = data])
    ELSE IF texture.ty = "object"
    THEN IF texture.obj # "Texture" THEN TableOutcome(Err("Expected Texture"), texs)
         ELSE IF ~gpu_ok THEN TableOutcome(Err("Could not update texture"), texs)
         ELSE TableOutcome(RetOk, texs)
    ELSE TableOutcome(Err("Expected f64 (texture id) or any (rust object)"), texs)

\* update__texture_image
update__texture_image(texture, image, imgs, texs, gpu_ok) ==
    IF image.ty = "f64"
    THEN LET x == Get(imgs, F64AsUsize(image.id)) IN
         IF x = None THEN TableOutcome(Err("Image id is out of bounds"), texs)
         ELSE update_texture(texture, x[1], texs, gpu_ok)
    ELSE IF image.ty = "object"
    THEN IF image.obj # "RgbaImage" THEN TableOutcome(Err("Expected RgbaImage"), texs)
         ELSE update_texture(texture, "io", texs, gpu_ok)
    ELSE TableOutcome(Err("Expected f64 (image id) or any (rust object)"), texs)

\* Mutant of load_font: the name of the font is not recorded.
load_font_nameless(file, gl, names) ==
    IF Loadable(file)
    THEN [ret |-> ResOk(Len(gl)), glyphs |-> Append(gl, file), font_names |-> names]
    ELSE [ret |-> ResErr("font error"), glyphs |-> gl, font_names |-> names]

\* load_font: a glyph cache is made from the file; on success it is appended
\* to the font table, the file name to the font names, and ok(id) is returned
load_font(file, gl, names) ==
    IF Loadable(file)
    THEN [ret |-> ResOk(Len(gl)), glyphs |-> Append(gl, file),
          font_names |-> Append(names, file)]
    ELSE [ret |-> ResErr("font error"), glyphs |-> gl, font_names |-> names]

\* load_font_obj: the glyph cache is handed to the script as an object
load_font_obj(file, gl, names) ==
    IF Loadable(file)
    THEN [ret |-> ResOkObj, glyphs |-> gl, font_names |-> names]
    ELSE [ret |-> ResErr("font error"), glyphs |-> gl, font_names |-> names]

InitTables == QuietCoordinator /\ InSession /\ NoScript

\* what a texture or font host function leaves alone
tables_kept == <<cvars, rvars, sounds, music, audio, sound_loads, draw_calls>>

\* dyon_interactive's load_image: the decoded image is appended to the table
LoadImage(img) ==
    /\ ~panicked /\ run_pc = "f"
    /\ Len(images) < MaxImages
    /\ images' = Append(images, img)
    /\ host' = HostCall("load_image", <<img>>)
    /\ host_ret' = Some(ResOk(Len(images)))
    /\ reads' = <<img>>
    /\ UNCHANGED <<bvars, tables_kept, textures, glyphs, font_names, issued>>

\* the script calls create_texture(image)
CreateTexture(image, gpu_ok) ==
    /\ ~panicked /\ run_pc = "f"
    /\ Len(textures) < MaxTextures
    /\ LET o == create_texture(image, images, textures, gpu_ok) IN
         /\ textures' = o.textures
         /\ host_ret' = Some(o.ret)
         /\ issued' = IF o.ret.tag = "Num"
                       THEN [issued EXCEPT !.textures = Append(@, o.ret.n)] ELSE issued
    /\ host' = HostCall("create_texture", <<image>>)
    /\ reads' = <<>>
    /\ UNCHANGED <<bvars, tables_kept, images, glyphs, font_names>>

\* the script calls update(texture: .., image: ..)
UpdateTextureImage(texture, image, gpu_ok) ==
    /\ ~panicked /\ run_pc = "f"
    /\ LET o == update__texture_image(texture, image, images, textures, gpu_ok) IN
         /\ textures' = o.textures
         /\ host_ret' = Some(o.ret)
    /\ host' = HostCall("update__texture_image", <<texture, image>>)
    /\ reads' = <<>>
    /\ UNCHANGED <<bvars, tables_kept, images, glyphs, font_names, issued>>

FontCallDone(file, o) ==
    /\ glyphs' = o.glyphs
    /\ font_names' = o.font_names
    /\ host_ret' = Some(o.ret)
    /\ issued' = IF o.ret.tag = "ok"
                  THEN [issued EXCEPT !.fonts = Append(@, o.ret.n)] ELSE issued
    /\ reads' = <<file>>
    /\ UNCHANGED <<bvars, tables_kept, images, textures>>

\* the script calls load_font(file)
LoadFont(file) ==
    /\ ~panicked /\ run_pc = "f"
    /\ Len(glyphs) < 2 + MaxFonts
    /\ host' = HostCall("load_font", <<file>>)
    /\ FontCallDone(file, load_font(file, glyphs, font_names))

\* the script calls load_font_obj(file)
LoadFontObj(file) ==
    /\ ~panicked /\ run_pc = "f"
    /\ host' = HostCall("load_font_obj", <<file>>)
    /\ FontCallDone(file, load_font_obj(file, glyphs, font_names))

NextTables ==
    \/ \E img \in ImageData : LoadImage(img)
    \/ \E image \in Values, gpu_ok \in BOOLEAN : CreateTexture(image, gpu_ok)
    \/ \E texture \in Values, image \in Values, gpu_ok \in BOOLEAN :
         UpdateTextureImage(texture, image, gpu_ok)
    \/ \E file \in FontFiles : LoadFont(file)
    \/ \E file \in FontFiles : LoadFontObj(file)

SpecTables == InitTables /\ [][NextTables]_vars

-----------------------------------------------------------------------------
(* One script session calling the host functions of every resource table *)

\* the name, the arguments and the values the session's script uses
SessionNames == {"n1"}
SessionRepeats == {Whole(-1), Whole(1)}
SessionImages == {Number(0), Object("RgbaImage")}

InitSession == QuietCoordinator /\ InSession /\ NoScript

NextSession ==
    \/ \E name \in SessionNames, file \in Files : BindSound(name, file)
    \/ \E name \in SessionNames, file \in Files : BindMusic(name, file)
    \/ \E name \in SessionNames, repeat \in SessionRepeats, free \in Capacity :
         PlaySound(name, repeat, 1, free)
    \/ \E name \in SessionNames, free \in Capacity : PlaySoundForever(name, 1, free)
    \/ \E name \in SessionNames, repeat \in SessionRepeats, free \in Capacity :
         PlayMusic(name, repeat, free)
    \/ \E name \in SessionNames, free \in Capacity : PlayMusicForever(name, free)
    \/ LoadImage("ia")
    \/ \E image \in SessionImages, gpu_ok \in BOOLEAN : CreateTexture(image, gpu_ok)
    \/ \E texture \in Values, image \in SessionImages, gpu_ok \in BOOLEAN :
         UpdateTextureImage(texture, image, gpu_ok)
    \/ \E file \in FontFiles : LoadFont(file)
    \/ \E file \in FontFiles : LoadFontObj(file)

SpecSession == InitSession /\ [][NextSession]_vars

-----------------------------------------------------------------------------
(* Properties of the coordinator *)

Calls == {gpu[i] : i \in DOMAIN gpu}
Count(c) == Cardinality({i \in DOMAIN gpu : gpu[i] = c})
IsPrefix(s, t) == Len(s) <= Len(t) /\ \A i \in DOMAIN s : s[i] = t[i]
NoResizePending == \A i \in DOMAIN pending : pending[i].kind # "resize"
\* the most recent call was a draw given a render tick
OnRenderTick == arg # None /\ arg[1].kind = "render"
\* ... and it has returned
Returned == pc = "idle" /\ ~panicked

\* C1: a draw_2d or draw_3d given an event that is not a render tick (rc: called
\* on a window with no event) returns none and does nothing: the callback is
\* not invoked, no texture is acquired, the renderer is not run, nothing is
\* submitted or presented.
C1_NonRenderDrawIsNoOp ==
    (op \in {"draw_2d", "draw_3d"} /\ (arg = None \/ arg[1].kind # "render"))
        => /\ Returned
           /\ ret = None /\ res = None
           /\ gpu = <<>>
           /\ surface_texture = "none" /\ command_buffer = "none"

C1_Witness ==
    /\ op = "draw_2d" /\ arg # None /\ arg[1].kind = "resize"
    /\ rev = "wgpu" /\ ret = None

\* C2 as claimed: whenever the wgpu draw_2d is about to run the renderer, the
\* surface configuration equals window.draw_size().
C2_SurfaceEqualsWindowAtRender ==
    pc = "acquired" => surface_config = draw_size

\* C2 amended: whenever the wgpu draw_2d is about to run the renderer and every
\* size change of the window has been delivered by next() (no resize event is
\* still queued), the surface configuration equals window.draw_size().
C2_SurfaceEqualsDeliveredSize ==
    (pc = "acquired" /\ NoResizePending) => surface_config = draw_size

C2_Witness ==
    /\ pc = "acquired" /\ last_resize # None /\ pending = <<>>
    /\ surface_config # ZeroSize

\* C3: in the wgpu coordinator, next() returning a resize event has configured
\* the surface with that event's draw size, and a draw_2d that follows a resize
\* event (no other resize since) renders with the resize event's draw size.
C3_ResizeConfiguredBeforeReturn ==
    rev = "wgpu" =>
        /\ (op = "next" /\ e # None /\ e[1].kind = "resize")
               => (gpu = <<"configure">> /\ surface_config = e[1].size)
        /\ (pc = "acquired" /\ last_resize # None) => surface_config = last_resize[1]

C3_Witness ==
    /\ rev = "wgpu" /\ op = "draw_2d" /\ pc = "acquired"
    /\ last_resize # None /\ NonZero(last_resize[1])

\* C4 as claimed: a draw_2d on a render tick whose surface has no current
\* texture does not panic: the call ends with the coordinator usable.
C4_AcquireFailureIsNoPanic ==
    (op = "draw_2d" /\ OnRenderTick /\ ~surface_ok /\ gpu = <<"get_current_texture">>)
        => ~panicked

\* C5: the calls of one wgpu draw_2d are, in this order and once each, acquire
\* the texture, run the renderer (which runs the callback), submit, present: at
\* every point the calls made are a prefix of that list, a call that has
\* returned on a render tick has made all of them, and no present comes before,
\* or without, a submit.
Draw2dCalls == <<"get_current_texture", "g2d.draw", "callback", "submit", "present">>

C5_AcquireRenderSubmitPresent ==
    (rev = "wgpu" /\ op = "draw_2d") =>
        /\ IsPrefix(gpu, Draw2dCalls)
        /\ (OnRenderTick /\ Returned) => gpu = Draw2dCalls
        /\ \A i \in DOMAIN gpu :
             gpu[i] = "present" => \E j \in 1..(i - 1) : gpu[j] = "submit"
        /\ (command_buffer = "submitted") = ("submit" \in Calls /\ "present" \notin Calls)

C5_Witness ==
    rev = "wgpu" /\ op = "draw_2d" /\ Returned /\ "present" \in Calls

C7_NextReturnsTickerEvent ==
    [][IteratorNext => (e' = tick' /\ (e' = None) = (tick' = None))]_vars

C7_Witness ==
    op = "next" /\ tick = None /\ e = None /\ should_close /\ last_resize # None

\* C8 as claimed: next() runs device cleanup once when the event it got is the
\* after-render event, and not otherwise.
C8_CleanupIffAfterRender ==
    op = "next" =>
        Count("cleanup") = (IF e # None /\ e[1].kind = "after_render" THEN 1 ELSE 0)

\* C9: the ticker is never asked for an event while a wgpu draw_2d is between
\* acquire and present: whenever next() runs, no surface texture is held, no
\* command buffer is unsubmitted, and a draw_2d that acquired a texture has
\* submitted and presented.
C9_OneDeepPipelining ==
    [][IteratorNext =>
          /\ surface_texture = "none" /\ command_buffer = "none"
          /\ (op = "draw_2d" /\ rev = "wgpu" /\ OnRenderTick)
                 => ("submit" \in Calls /\ "present" \in Calls)]_vars

C9_Witness ==
    /\ rev = "wgpu" /\ op = "draw_2d" /\ OnRenderTick /\ Returned
    /\ events = "SwapBuffers" /\ surface_texture = "none"

-----------------------------------------------------------------------------
(* Properties of run() *)

\* C10: once run() has registered its 14 handles, every way out of it (f
\* returning Ok, the script failing, f returning Err) releases all of them in
\* the reverse of the order they were registered in and leaves the ambient
\* registry as it was before run(): while the release is under way the handles
\* released so far are the last registered ones, in reverse order.
C10_TeardownReversesInstall ==
    /\ run_pc \in {"f", "drop", "scope_exit", "returned"}
           => /\ IsPrefix(released, Reverse(install_order))
              /\ Len(guards) + Len(released) = Len(install_order)
              /\ Len(install_order) = 14
    /\ run_pc = "returned"
           => /\ released = Reverse(install_order)
              /\ guards = <<>>
              /\ current = pre

C10_Witness ==
    /\ run_pc = "returned" /\ run_ret = Some("Err") /\ runs > 0
    /\ pre["window"] # None /\ pre["music"] = None

-----------------------------------------------------------------------------
(* Properties of the audio host functions *)

\* the most recent host call was fn, and it returned to the script
HostWas(fn) == host # None /\ host[1].fn = fn
HostReturned(fn) == HostWas(fn) /\ ~panicked
\* the play calls of the most recent host call, and the calls made on handle h
\* after the play that returned it
Plays == SelectSeq(audio, LAMBDA c : c.call = "play")
After(h) == SelectSeq(audio, LAMBDA c : c.h = h /\ c.call # "play")

\* C11: play_sound(name, 0, volume), for a bound or an unbound name and any
\* volume, makes no call on the audio track, reads no file, leaves the sound
\* table as it was and returns.
C11_ZeroRepeatIsSilent ==
    [][(\E name \in Names, volume \in Volumes, free \in Capacity :
            PlaySound(name, 0, volume, free))
        => (audio' = <<>> /\ reads' = <<>> /\ sounds' = sounds /\ ~panicked'
            /\ host_ret' = Some(RetOk))]_vars

C11_Witness ==
    /\ HostReturned("play_sound") /\ host[1].args = <<"n1", 0, 1>>
    /\ sounds["n1"] = Entry("boom.wav", None) /\ sounds["n2"] = None
    /\ audio = <<>>

\* C12: play_sound(name, n, volume) for a bound name and a whole n >= 1, once it
\* has returned, has issued exactly n play calls, all on the main track, none
\* looping; nothing else is done to the first handle, and the k-th later one
\* (k = 1 .. n-1) is paused and resumed at delay k * d, d the sound's duration.
C12_RepeatSchedulesNPlays ==
    \A n \in 1..MaxRepeat :
        (HostReturned("play_sound") /\ host[1].args[2] = Whole(n)
         /\ sounds[host[1].args[1]] # None)
        => LET data == sounds[host[1].args[1]][1].data[1]
               d == Duration(data)
           IN /\ Len(Plays) = n
              /\ \A k \in 1..n : /\ Plays[k].h = k /\ ~Plays[k].loop
                                 /\ Plays[k].track = "main" /\ Plays[k].file = data
              /\ After(1) = <<>>
              /\ \A k \in 2..n : /\ Len(After(k)) = 2
                                 /\ After(k)[1].call = "pause"
                                 /\ After(k)[2].call = "resume_at"
                                 /\ After(k)[2].at = (k - 1) * d
              /\ Len(audio) = n + 2 * (n - 1)

C12_Witness ==
    /\ HostReturned("play_sound") /\ host[1].args[2] = Whole(MaxRepeat)
    /\ Len(Plays) = MaxRepeat /\ Len(audio) > MaxRepeat
    /\ audio[Len(audio)].at = (MaxRepeat - 1) * Duration("boom.wav")

\* C13: play_sound(name, -1, volume) for a bound name, once it has returned, has
\* issued exactly one call, a play on the main track with the loop region set,
\* both when the data was cached already (no file is read) and when it was not
\* (the file is read once).
C13_ForeverIsOneLoopingPlay ==
    (HostReturned("play_sound") /\ host[1].args[2] = Whole(-1)
     /\ sounds[host[1].args[1]] # None)
    => /\ Len(audio) = 1
       /\ audio[1].call = "play" /\ audio[1].loop /\ audio[1].track = "main"
       /\ audio[1].file = sounds[host[1].args[1]][1].data[1]
       /\ Len(reads) <= 1

C13_Witness ==
    /\ HostReturned("play_sound") /\ host[1].args[2] = Whole(-1)
    /\ sounds[host[1].args[1]] # None
    /\ reads = <<>> /\ Len(audio) = 1 /\ audio[1].loop

\* C14: a bind_sound / bind_music step stores (file, no cached data) under the
\* name and nothing else: every other entry of its table and the whole other
\* table are as before, no file is read, no audio call is made; files are read
\* only by the play functions.
C14_BindOnlyRegisters ==
    [][/\ \A name \in Names, file \in Files :
            /\ BindSound(name, file)
                 => /\ sounds'[name] = Entry(file, None)
                    /\ \A other \in Names \ {name} : sounds'[other] = sounds[other]
                    /\ music' = music
            /\ BindMusic(name, file)
                 => /\ music'[name] = Entry(file, None)
                    /\ \A other \in Names \ {name} : music'[other] = music[other]
                    /\ sounds' = sounds
       /\ host'[1].fn \in {"bind_sound", "bind_music"} => (reads' = <<>> /\ audio' = <<>>)
       /\ reads' # <<>> => host'[1].fn \in {"play_sound", "play_sound_forever",
                                            "play_music", "play_music_forever"}]_vars

C14_Witness ==
    /\ HostWas("bind_sound") /\ host[1].args = <<"n1", "boom.wav">>
    /\ sounds["n1"] = Entry("boom.wav", None)
    /\ sounds["n2"] = Entry("boom.wav", Some("boom.wav"))
    /\ music["n1"] # None /\ music["n1"][1].data # None

\* C15: between two binds of a name its sound file is read at most once; it has
\* been read exactly when the entry holds cached data; and a play_sound (repeat
\* not 0) or play_sound_forever of a bound name that has returned has left the
\* data cached, read the file only if it was not cached, and played the cached
\* data in every play call.
C15_SoundLoadedOnceAndCached ==
    /\ \A name \in Names :
          /\ sound_loads[name] <= 1
          /\ (sounds[name] # None /\ ~panicked)
                => ((sound_loads[name] = 1) = (sounds[name][1].data # None))
    /\ ((HostReturned("play_sound") /\ host[1].args[2] # 0)
           \/ HostReturned("play_sound_forever"))
         /\ sounds[host[1].args[1]] # None
       => LET entry == sounds[host[1].args[1]][1]
          IN /\ entry.data = Some(entry.file)
             /\ reads \in {<<>>, <<entry.file>>}
             /\ Plays # <<>>
             /\ \A k \in DOMAIN Plays : Plays[k].file = entry.data[1]

C15_Witness ==
    /\ HostReturned("play_sound_forever") /\ host[1].args[1] = "n1"
    /\ sound_loads["n1"] = 1 /\ reads = <<>> /\ Len(Plays) = 1

\* C16: play_music(name, n) for a bound name and a whole n >= 1, once it has
\* returned, has opened the file as a stream n times, once per instance, and
\* issued exactly n play calls on the music track, none looping, the k-th later
\* one paused and resumed at delay k * d; the handle the table caches is the
\* first one.  play_music(name, 0) makes no audio call and opens no file.
C16_MusicRepeatOpensNStreams ==
    /\ \A n \in 1..MaxRepeat :
          (HostReturned("play_music") /\ host[1].args[2] = Whole(n)
           /\ music[host[1].args[1]] # None)
          => LET entry == music[host[1].args[1]][1]
                 d == Duration(entry.file)
             IN /\ reads = [k \in 1..n |-> entry.file]
                /\ Len(Plays) = n
                /\ \A k \in 1..n : /\ Plays[k].h = k /\ ~Plays[k].loop
                                   /\ Plays[k].track = "music"
                                   /\ Plays[k].file = entry.file
                /\ After(1) = <<>>
                /\ \A k \in 2..n : /\ Len(After(k)) = 2
                                   /\ After(k)[1].call = "pause"
                                   /\ After(k)[2].call = "resume_at"
                                   /\ After(k)[2].at = (k - 1) * d
                /\ entry.data = Some(Handle(entry.file, 1))
    /\ (HostWas("play_music") /\ host[1].args[2] = 0)
          => (audio = <<>> /\ reads = <<>> /\ ~panicked)

C16_Witness ==
    /\ HostReturned("play_music") /\ host[1].args[2] = Whole(MaxRepeat)
    /\ Len(reads) = MaxRepeat /\ Len(Plays) = MaxRepeat
    /\ music[host[1].args[1]][1].data = Some(Handle("boom.wav", 1))

\* trunc of a repeat value (kept in halves), and the larger of two numbers
Trunc(h) == IF h < 0 THEN -((-h) \div 2) ELSE h \div 2
Max(a, b) == IF a >= b THEN a ELSE b
\* the table a play function looks its name up in
TableOf(fn) == IF fn \in {"play_sound", "play_sound_forever"} THEN sounds ELSE music

\* C27: for a bound name and a repeat value other than -1 and 0, play_sound and
\* play_music, once they have returned, have issued exactly max(1, trunc(repeat))
\* play calls, none looping: once for negative values and for fractions below
\* 1, the integer part for a fraction above 1.
C27_PlaysMaxOneTrunc ==
    \A fn \in {"play_sound", "play_music"} :
        (/\ HostReturned(fn)
         /\ host[1].args[2] \notin {Whole(-1), 0}
         /\ TableOf(fn)[host[1].args[1]] # None)
        => /\ Len(Plays) = Max(1, Trunc(host[1].args[2]))
           /\ \A k \in DOMAIN Plays : ~Plays[k].loop

\* play_music with a fraction above 1 has played its integer part
C27_Witness ==
    /\ HostReturned("play_music") /\ host[1].args[2] = Whole(MaxRepeat) + 1
    /\ music[host[1].args[1]] # None
    /\ Len(Plays) = MaxRepeat /\ MaxRepeat > 1

-----------------------------------------------------------------------------
(* Properties of next_event and draw *)

\* C17: every next_event() call asks the ticker once and records what it
\* returned in that call: an event makes the ambient current event that event
\* and returns true; none makes it none and returns false.  The event recorded
\* is the one of this call, never one an earlier call recorded.
C17_NextEventRecordsTick ==
    [][ScriptNextEvent
         => /\ e' = tick'
            /\ host_ret' = Some(RetBool(tick' # None))
            /\ tick' \in {o.ret : o \in EventsNext(events, pending, draw_size, should_close)}
       ]_vars

C17_Witness ==
    /\ HostWas("next_event") /\ host_ret = Some(RetBool(FALSE)) /\ e = None
    /\ should_close /\ events = "SwapBuffers"

\* C18 as claimed: a draw() call returns to the script, with the no-current-event
\* error when no event is recorded and without calling window.draw_2d; with
\* success and without calling window.draw_2d when the event is not a render
\* tick; and on a render tick after exactly one call of window.draw_2d, with
\* the drawing result it returned or the drawing-failed error if it returned none.
C18_DrawOutcomes ==
    HostWas("draw") =>
        /\ host_ret # None
        /\ e = None => (host_ret = Some(Err(NO_EVENT)) /\ draw_calls = <<>>)
        /\ (e # None /\ render_args(e[1]) = None)
              => (host_ret = Some(RetOk) /\ draw_calls = <<>>)
        /\ (e # None /\ render_args(e[1]) # None)
              => /\ Len(draw_calls) = 1
                 /\ host_ret = Some(IF draw_calls[1].ret # None THEN draw_calls[1].ret[1]
                                    ELSE Err(DrawingFailed))

\* C20 as claimed: a host function whose load of an asset file fails returns
\* to the script (with a failure value): the session is not aborted.
C20_LoadFailureIsAValue ==
    (reads # <<>> /\ ~Loadable(reads[Len(reads)])) => (~panicked /\ host_ret # None)

-----------------------------------------------------------------------------
(* Properties of the texture host functions *)

\* id is the index of an entry of the table v
IsIndex(id, v) == 0 <= id /\ id < Len(v)

\* C19 as claimed: create_texture and update__texture_image given a number that
\* is not the index of an entry of the image table (of the texture table, for
\* the texture of an update whose image is at hand), be it negative or at or
\* beyond the table's length, return the image (texture) id out of bounds error.
C19_BadIdIsError ==
    /\ (HostWas("create_texture") /\ host[1].args[1].ty = "f64"
        /\ ~IsIndex(host[1].args[1].id, images))
          => host_ret = Some(Err("Image id is out of bounds"))
    /\ HostWas("update__texture_image") =>
          LET texture == host[1].args[1]
              image == host[1].args[2]
          IN /\ (image.ty = "f64" /\ ~IsIndex(image.id, images))
                   => host_ret = Some(Err("Image id is out of bounds"))
             /\ (/\ image.ty = "f64" => IsIndex(image.id, images)
                 /\ image.ty = "object" => image.obj = "RgbaImage"
                 /\ image.ty \in {"f64", "object"}
                 /\ texture.ty = "f64" /\ ~IsIndex(texture.id, textures))
                   => host_ret = Some(Err("Texture id is out of bounds"))


-----------------------------------------------------------------------------
(* Properties of the resource tables *)

\* the step is a call of host function fn
Called(fn) == host' # None /\ host'[1].fn = fn
\* the step is bind_sound or bind_music giving this name to a file
Bound(fn, name) == Called(fn) /\ host'[1].args[1] = name

\* No entry of the image, texture or font tables goes away or moves, and the
\* content of a texture slot changes only when update__texture_image wrote to it
ListsAppendOnly ==
    /\ IsPrefix(images, images')
    /\ IsPrefix(glyphs, glyphs')
    /\ IsPrefix(font_names, font_names')
    /\ Len(textures) <= Len(textures')
    /\ \A i \in DOMAIN textures :
         textures'[i] # textures[i] => Called("update__texture_image")

\* An entry of a name table keeps its path and never loses its cache
EntryKept(tbl, tbl2, name) ==
    tbl[name] # None =>
        /\ tbl2[name] # None
        /\ tbl2[name][1].file = tbl[name][1].file
        /\ tbl[name][1].data # None => tbl2[name][1].data # None

C22_LoadFontAppendsPair ==
    [][/\ Called("load_font") =>
            /\ host_ret' # None /\ host_ret'[1].tag \in {"ok", "err"}
            /\ IF host_ret'[1].tag = "ok"
               THEN /\ glyphs' = Append(glyphs, host'[1].args[1])
                    /\ font_names' = Append(font_names, host'[1].args[1])
                    /\ host_ret' = Some(ResOk(Len(glyphs)))
                    /\ glyphs'[host_ret'[1].n + 1] = host'[1].args[1]
               ELSE glyphs' = glyphs /\ font_names' = font_names
       /\ Called("load_font_obj") => (glyphs' = glyphs /\ font_names' = font_names)
       /\ Len(glyphs) = Len(font_names)
       /\ Len(glyphs') = Len(font_names')]_vars

\* load_font has loaded a font and returned the index of its entry
C22_Witness ==
    /\ HostReturned("load_font") /\ host_ret = Some(ResOk(2))
    /\ Len(glyphs) = 3 /\ Len(font_names) = 3 /\ glyphs[3] = "font.ttf"

\* ids are handed out in strictly increasing order
Increasing(ids) == \A i, j \in DOMAIN ids : i < j => ids[i] < ids[j]

\* what holds of the ids handed out so far: each is the index of an entry, the
\* first of them is the index of the first entry the script added
IdsAreIndices(ids, table, first) ==
    /\ Increasing(ids)
    /\ \A i \in DOMAIN ids : ids[i] = first + i - 1 /\ IsIndex(ids[i], table)
    /\ Len(table) = first + Len(ids)

\* C23: an id returned by create_texture (by image id) or load_font is the
\* index at which the new entry was stored; the ids of one table are strictly
\* increasing, none is handed out twice, an id keeps referring to the same
\* entry, and a failed create_texture consumes no id.
C23_IdsAreIndices ==
    [][/\ IdsAreIndices(issued.textures, textures, 0)'
       /\ IdsAreIndices(issued.fonts, glyphs, 2)'
       /\ IsPrefix(issued.textures, issued.textures')
       /\ IsPrefix(issued.fonts, issued.fonts')
       /\ \A i \in DOMAIN issued.fonts :
            glyphs'[issued.fonts[i] + 1] = glyphs[issued.fonts[i] + 1]
       /\ \A i \in DOMAIN issued.textures :
            \/ textures'[issued.textures[i] + 1] = textures[issued.textures[i] + 1]
            \/ Called("update__texture_image")
       /\ Called("create_texture") =>
            IF host_ret'[1].tag = "Num"
            THEN /\ host_ret'[1].n = Len(textures)
                 /\ Len(textures') = Len(textures) + 1
                 /\ issued'.textures = Append(issued.textures, Len(textures))
            ELSE textures' = textures /\ issued' = issued
       /\ Called("load_font") =>
            IF host_ret'[1].tag = "ok"
            THEN /\ host_ret'[1].n = Len(glyphs)
                 /\ issued'.fonts = Append(issued.fonts, Len(glyphs))
            ELSE glyphs' = glyphs /\ issued' = issued]_vars

\* a second texture was created and its id, 1, returned
C23_Witness ==
    /\ HostReturned("create_texture") /\ host_ret = Some(RetNum(1))
    /\ issued.textures = <<0, 1>> /\ Len(textures) = 2

-----------------------------------------------------------------------------
(* Properties of resizing *)

\* the calls include a surface configuration or a re-creation of the targets
Corrects(g) == \E i \in DOMAIN g : g[i] \in {"configure", "create_main_targets"}

\* C25: once a next() has brought the surface or the output targets to the
\* window's draw size, a later next() makes no further correction while the
\* draw size stays as it is: here the next() that follows directly, with no
\* resize event waiting.
C25_CorrectedOncePerResize ==
    [][(/\ IteratorNext /\ e' # None
        /\ op = "next" /\ e # None /\ Corrects(gpu)
        /\ NoResizePending) => ~Corrects(gpu')]_vars

\* C26: the surface is never configured with a width or a height of zero,
\* whatever draw size a resize event reports.
C26_SurfaceNeverZero == rev = "wgpu" => NonZero(surface_config)

-----------------------------------------------------------------------------
(* Properties of the surface in a script session *)

\* C24: when next_event() records a resize event, the surface has been
\* configured with the new draw size before next_event() returns (stated for
\* the resizes to a size that is not zero, which C26 does not concern).
C24_ScriptResizeReconfigures ==
    (HostReturned("next_event") /\ e # None /\ e[1].kind = "resize" /\ NonZero(e[1].size))
        => surface_config = e[1].size

-----------------------------------------------------------------------------
(* Properties of the play functions on names and on their forever variants *)

PlayFunctions == {"play_sound", "play_sound_forever", "play_music", "play_music_forever"}

\* C28: a play function called with a name that is not bound does nothing: no
\* audio call, no file opened, both name tables as they were, no panic, and it
\* returns to the script.
C28_UnboundNameIsNoOp ==
    [][\A fn \in PlayFunctions :
         (Called(fn) /\ TableOf(fn)[host'[1].args[1]] = None)
         => /\ sounds' = sounds /\ music' = music
            /\ audio' = <<>> /\ reads' = <<>>
            /\ ~panicked' /\ host_ret' = Some(RetOk)]_vars

\* play_sound_forever was called with a name that is not bound, while the other
\* name is bound and cached
C28_Witness ==
    /\ HostReturned("play_sound_forever") /\ host[1].args[1] = "n2"
    /\ sounds["n2"] = None /\ audio = <<>> /\ reads = <<>>
    /\ sounds["n1"] # None /\ sounds["n1"][1].data # None

\* C29: started from the same tables, play_sound_forever(name, v) and
\* play_sound(name, -1, v) make the same audio calls, read the same files, leave
\* the same sound table and panic alike, and so do play_music_forever(name) and
\* play_music(name, -1): for every name (bound or not, cached or not), volume
\* and track capacity, from every table a session reaches.
C29_ForeverIsRepeatMinusOne ==
    \A name \in Names, free \in Capacity :
        /\ play_music_forever__name(name, music, free)
             = play_music__name_repeat(name, Whole(-1), music, free)
        /\ \A volume \in Volumes :
             play_sound_forever__name_volume(name, volume, sounds, free)
               = play_sound__name_repeat_volume(name, Whole(-1), volume, sounds, free)

\* play_sound_forever has played cached data looping, one name of the music
\* table holds a handle and the other is bound to a file that cannot be opened
C29_Witness ==
    /\ HostReturned("play_sound_forever") /\ reads = <<>> /\ Len(Plays) = 1 /\ Plays[1].loop
    /\ sounds[host[1].args[1]] # None /\ sounds[host[1].args[1]][1].data # None
    /\ music["n1"] # None /\ music["n1"][1].data # None
    /\ music["n2"] = Entry("missing.wav", None)

-----------------------------------------------------------------------------
(* Properties of the shared RefCells *)

\* C30: no call on a window or its clones, made from inside a draw callback or
\* not, finds a RefCell borrowed that it borrows mutably.
C30_NoDoubleBorrow == borrow_failed = None

====
